---- MODULE Spec2Model ----
(***************************************************************************)
(* A model of the timecond condition algebra (packages/timecond/src).      *)
(*                                                                         *)
(* Instants.  A JavaScript Date is a mutable object.  Its value is         *)
(* modelled as local wall-clock time [day, ms]: day is the number of days  *)
(* since 1970-01-01 and ms the milliseconds since local midnight.  The     *)
(* ambient calendar is the proleptic Gregorian one without daylight-saving *)
(* shifts, so every day has MsPerDay milliseconds.                         *)
(*                                                                         *)
(* Object identity.  The code hands out references to Date objects it      *)
(* keeps (TimeDeltaCond.validFrom, the starts of NthCond.validFrom) and    *)
(* callers change such objects in place with setMilliseconds.  A Date      *)
(* object is therefore either fresh (own = <<>>, carrying its value) or    *)
(* the idx-th Date stored by the condition at tree path own, whose value   *)
(* lives in the heap.  Only the start of a range is ever changed in place, *)
(* so the end of a range is a plain value.                                 *)
(*                                                                         *)
(* An optional value (T | undefined) is a sequence of length 0 or 1.       *)
(***************************************************************************)
EXTENDS Integers, Sequences, FiniteSets, TLC

MsPerSecond == 10 * 100
MsPerMinute == 60 * MsPerSecond
MsPerHour == 60 * MsPerMinute
MsPerDay == 24 * MsPerHour

---------------------------------------------------------------------------
(* Date arithmetic of the host calendar.                                   *)

Time(day, ms) == [day |-> day, ms |-> ms]

\* Overflowing fields roll over into the day, as Date's setters do.
Norm(day, ms) == [day |-> day + (ms \div MsPerDay), ms |-> ms % MsPerDay]

AddMs(t, k) == Norm(t.day, t.ms + k)

AddDays(t, n) == [day |-> t.day + n, ms |-> t.ms]

\* a < b and a <= b on Date values (comparison by valueOf).
Lt(a, b) == a.day < b.day \/ (a.day = b.day /\ a.ms < b.ms)

Le(a, b) == ~Lt(b, a)

\* Date.getDay(): 0 = Sunday .. 6 = Saturday; 1970-01-01 was a Thursday.
getDay(t) == (t.day + 4) % 7

\* Date.setHours(hour, minute, 0, 0).
setHours(t, hour, minute) == Norm(t.day, hour * MsPerHour + minute * MsPerMinute)

\* Days since 1970-01-01 of the civil date (y, m, d), m in 1..12; d may
\* overflow the month, in which case the date rolls into the next months.
\* The computation goes by the era of 400 years, the year of the era (yoe),
\* the day of the year counted from March 1 (doy) and the day of the era.
DaysFromEra(era, yoe, doy) ==
    era * 146097 + yoe * 365 + (yoe \div 4) - (yoe \div 100) + doy - 719468

DaysFromYear(yy, mp, d) ==
    DaysFromEra(yy \div 400, yy % 400, ((153 * mp + 2) \div 5) + d - 1)

DaysFromCivil(y, m, d) ==
    DaysFromYear(IF m <= 2 THEN y - 1 ELSE y, IF m > 2 THEN m - 3 ELSE m + 9, d)

\* The civil date [y, m, d] (m in 1..12) of a day number, by the same steps
\* backwards.
CivilOf(y, m, d) == [y |-> IF m <= 2 THEN y + 1 ELSE y, m |-> m, d |-> d]

CivilFromMonth(y, doy, mp) ==
    CivilOf(y, IF mp < 10 THEN mp + 3 ELSE mp - 9, doy - ((153 * mp + 2) \div 5) + 1)

CivilFromDoy(y, doy) == CivilFromMonth(y, doy, (5 * doy + 2) \div 153)

CivilFromYoe(era, doe, yoe) ==
    CivilFromDoy(yoe + era * 400, doe - (365 * yoe + (yoe \div 4) - (yoe \div 100)))

CivilFromDoe(era, doe) ==
    CivilFromYoe(era, doe,
        (doe - (doe \div 1460) + (doe \div 36524) - (doe \div 146096)) \div 365)

CivilFromDays(z0) == CivilFromDoe((z0 + 719468) \div 146097, (z0 + 719468) % 146097)

\* Date.getFullYear(), getMonth() (0..11), getDate() (1..31).
getFullYear(t) == CivilFromDays(t.day).y

getMonth(t) == CivilFromDays(t.day).m - 1

getDate(t) == CivilFromDays(t.day).d

\* new Date(year, month, date) at 00:00, month counted from 0 and allowed to
\* leave 0..11, date allowed to leave the month.
NewDate(year, month, date) ==
    Time(DaysFromCivil(year + (month \div 12), (month % 12) + 1, 1) + date - 1, 0)

\* Date.setMonth(month): the same day of month and time in another month.
setMonth(t, month) ==
    LET c == CivilFromDays(t.day)
    IN  Time(NewDate(c.y, month, c.d).day, t.ms)

\* Date.setFullYear(year).
setFullYear(t, year) ==
    LET c == CivilFromDays(t.day)
    IN  Time(NewDate(year, c.m - 1, c.d).day, t.ms)

\* Date.setDate(date): another day of the same month.
setDate(t, date) ==
    LET c == CivilFromDays(t.day)
    IN  Time(NewDate(c.y, c.m - 1, date).day, t.ms)

---------------------------------------------------------------------------
(* Date objects and the heap of stored Dates.                              *)

None == <<>>

Some(x) == <<x>>

\* A Date object no condition keeps.
Fresh(t) == [own |-> <<>>, idx |-> 0, day |-> t.day, ms |-> t.ms]

\* The idx-th Date object kept by the condition at path own.
Stored(own, idx) == [own |-> own, idx |-> idx, day |-> 0, ms |-> 0]

\* The current value of a Date object.
getTime(h, d) == IF d.own = <<>> THEN Time(d.day, d.ms) ELSE h[d.own][d.idx]

\* d.setMilliseconds(d.getMilliseconds() + k): the object keeps its identity;
\* a stored Date changes in the heap.
setMilliseconds(h, d, k) ==
    LET t == AddMs(getTime(h, d), k)
    IN  IF d.own = <<>>
        THEN [d |-> Fresh(t), h |-> h]
        ELSE [d |-> d, h |-> [h EXCEPT ![d.own][d.idx] = t]]

\* new Date(d): a copy with the current value.
CopyDate(h, d) == Fresh(getTime(h, d))

Range(start, end) == [start |-> start, end |-> end]

\* A range of fresh Dates.
FreshRange(s, e) == Range(Fresh(s), Some(e))

---------------------------------------------------------------------------
(* dateRangeImpl: ranges and canonical range sets.                         *)

inDateRangeImpl(h, date, range) ==
    /\ Le(getTime(h, range.start), getTime(h, date))
    /\ (range.end = None \/ Lt(getTime(h, date), range.end[1]))

RECURSIVE inRangeSearch(_, _, _, _, _)
inRangeSearch(h, date, ranges, left, right) ==
    IF left > right
    THEN None
    ELSE LET mid == (left + right) \div 2
             range == ranges[mid + 1]
         IN  IF Lt(getTime(h, date), getTime(h, range.start))
             THEN inRangeSearch(h, date, ranges, left, mid - 1)
             ELSE IF range.end # None /\ Le(range.end[1], getTime(h, date))
                  THEN inRangeSearch(h, date, ranges, mid + 1, right)
                  ELSE Some(range)

\* A search that starts with right one short of the last index.
inRangeImplShort(h, date, ranges) == inRangeSearch(h, date, ranges, 0, Len(ranges) - 2)

inRangeImpl(h, date, ranges) == inRangeSearch(h, date, ranges, 0, Len(ranges) - 1)

\* Array.prototype.sort by start, which is stable: x goes behind every
\* element whose start is not later than its own.
RECURSIVE SortInsert(_, _, _)
SortInsert(h, sorted, x) ==
    IF sorted = <<>>
    THEN <<x>>
    ELSE LET last == sorted[Len(sorted)]
         IN  IF Le(getTime(h, last.start), getTime(h, x.start))
             THEN Append(sorted, x)
             ELSE Append(SortInsert(h, SubSeq(sorted, 1, Len(sorted) - 1), x), last)

RECURSIVE SortByStart(_, _)
SortByStart(h, ranges) ==
    IF ranges = <<>>
    THEN <<>>
    ELSE SortInsert(h, SortByStart(h, SubSeq(ranges, 1, Len(ranges) - 1)), ranges[Len(ranges)])

RECURSIVE mergeLoop(_, _, _, _, _)
mergeLoop(h, sortedRanges, i, currentMerge, mergedRanges) ==
    IF i > Len(sortedRanges)
    THEN Append(mergedRanges, currentMerge)
    ELSE LET nextRange == sortedRanges[i]
         IN  IF currentMerge.end = None
                \/ Le(getTime(h, nextRange.start), currentMerge.end[1])
             THEN LET end == IF nextRange.end = None THEN None
                             ELSE IF currentMerge.end = None THEN None
                             ELSE IF Lt(currentMerge.end[1], nextRange.end[1])
                                  THEN nextRange.end
                                  ELSE currentMerge.end
                  IN  mergeLoop(h, sortedRanges, i + 1,
                                Range(currentMerge.start, end), mergedRanges)
             ELSE mergeLoop(h, sortedRanges, i + 1, nextRange,
                            Append(mergedRanges, currentMerge))

\* A merge left out: the sorted ranges are returned as they are.
mergeLeftOut(h, sortedRanges) == sortedRanges

mergeSortedRanges(h, sortedRanges) ==
    IF Len(sortedRanges) = 0
    THEN <<>>
    ELSE mergeLoop(h, sortedRanges, 2, sortedRanges[1], <<>>)

processRanges(h, ranges) ==
    IF Len(ranges) = 0 THEN <<>> ELSE mergeSortedRanges(h, SortByStart(h, ranges))

\* A union that answers an empty thisRanges with thisRanges.
unionImplEmptyThis(h, thisRanges, otherRanges) ==
    IF Len(thisRanges) = 0 THEN thisRanges
    ELSE IF Len(otherRanges) = 0 THEN thisRanges
    ELSE mergeSortedRanges(h, SortByStart(h, thisRanges \o otherRanges))

unionImpl(h, thisRanges, otherRanges) ==
    IF Len(thisRanges) = 0 THEN otherRanges
    ELSE IF Len(otherRanges) = 0 THEN thisRanges
    ELSE mergeSortedRanges(h, SortByStart(h, thisRanges \o otherRanges))

\* A comparison of ends that counts an absent end as the earliest end.
EndLtAbsentFirst(ea, eb) == eb # None /\ (ea = None \/ Lt(ea[1], eb[1]))

\* A comparison of ends that takes an absent end for no end at all.
EndLtPresent(ea, eb) == ea # None /\ eb # None /\ Lt(ea[1], eb[1])

\* ea < eb on range ends, an absent end counting as Infinity.
EndLt(ea, eb) == ea # None /\ (eb = None \/ Lt(ea[1], eb[1]))

RECURSIVE intersectLoop(_, _, _, _, _, _)
intersectLoop(h, rangesA, rangesB, i, j, resultRanges) ==
    IF ~(i <= Len(rangesA) /\ j <= Len(rangesB))
    THEN resultRanges
    ELSE LET rangeA == rangesA[i]
             rangeB == rangesB[j]
             startA == getTime(h, rangeA.start)
             startB == getTime(h, rangeB.start)
             intersectStart == IF Lt(startA, startB) THEN startB ELSE startA
             intersectEnd == IF EndLt(rangeA.end, rangeB.end) THEN rangeA.end ELSE rangeB.end
             result == IF intersectEnd = None \/ Lt(intersectStart, intersectEnd[1])
                       THEN Append(resultRanges, Range(Fresh(intersectStart), intersectEnd))
                       ELSE resultRanges
         IN  IF EndLt(rangeA.end, rangeB.end)
             THEN intersectLoop(h, rangesA, rangesB, i + 1, j, result)
             ELSE IF EndLt(rangeB.end, rangeA.end)
                  THEN intersectLoop(h, rangesA, rangesB, i, j + 1, result)
                  ELSE intersectLoop(h, rangesA, rangesB, i + 1, j + 1, result)

intersectionImpl(h, rangesA, rangesB) ==
    IF Len(rangesA) = 0 \/ Len(rangesB) = 0
    THEN <<>>
    ELSE intersectLoop(h, rangesA, rangesB, 1, 1, <<>>)

\* DateRangeSet: the set is its ranges.
firstDate(ranges) == IF Len(ranges) > 0 THEN Some(ranges[1].start) ELSE None

lastDate(ranges) == IF Len(ranges) > 0 THEN ranges[Len(ranges)].end ELSE None

lastRange(ranges) == IF Len(ranges) > 0 THEN Some(ranges[Len(ranges)]) ELSE None

---------------------------------------------------------------------------
(* Conditions.  A condition is a record tagged with its class; a query     *)
(* returns [res, h]: its result and the heap it leaves behind.             *)

Result(res, h) == [res |-> res, h |-> h]

(* TimeDeltaCond: validFrom is the stored Date heap[c.id][1].              *)

\* A comparison that leaves out the instant validFrom itself.
TimeDeltaLastActiveRangeLate(c, h, date) ==
    IF Lt(h[c.id][1], getTime(h, date))
    THEN Some(Range(Stored(c.id, 1), None))
    ELSE None

TimeDeltaLastActiveRange(c, h, date) ==
    IF Le(h[c.id][1], getTime(h, date))
    THEN Some(Range(Stored(c.id, 1), None))
    ELSE None

TimeDeltaNextRanges(c, h, searchAfter) ==
    LET range == TimeDeltaLastActiveRange(c, h, searchAfter)
    IN  IF range # None /\ inDateRangeImpl(h, searchAfter, range[1])
        THEN <<>>
        ELSE processRanges(h, <<Range(Stored(c.id, 1), None)>>)

(* TimeBetweenCond: c.range is the stored, inclusive day-time range.       *)

\* The constructor's adjustment of an exclusive end to an inclusive one.
TimeBetweenEnd(end, inclusive) ==
    IF inclusive
    THEN end
    ELSE LET minute == IF end.minute - 1 < 0 THEN 59 ELSE end.minute - 1
             hour == IF end.minute - 1 < 0 THEN end.hour - 1 ELSE end.hour
         IN  [hour |-> IF hour < 0 THEN 23 ELSE hour, minute |-> minute]

getConcreteRange(date, dayTime) == setHours(date, dayTime.hour, dayTime.minute)

\* An end that stops at the start of the last minute.
TimeBetweenEndRangeShort(c, relativeTo, startTime, endTime) ==
    IF Le(startTime, endTime)
    THEN getConcreteRange(relativeTo, c.range.end)
    ELSE AddDays(getConcreteRange(relativeTo, c.range.end), 1)

TimeBetweenEndRange(c, relativeTo, startTime, endTime) ==
    LET d == IF Le(startTime, endTime)
             THEN getConcreteRange(relativeTo, c.range.end)
             ELSE AddDays(getConcreteRange(relativeTo, c.range.end), 1)
    IN  AddMs(d, MsPerMinute)

TimeBetweenLastActiveRange(c, h, date) ==
    LET startTime == getConcreteRange(getTime(h, date), c.range.start)
        endTime == getConcreteRange(getTime(h, date), c.range.end)
        actualStart == IF Le(startTime, getTime(h, date))
                       THEN startTime
                       ELSE AddDays(startTime, -1)
    IN  Some(FreshRange(actualStart, TimeBetweenEndRange(c, actualStart, startTime, endTime)))

TimeBetweenNextRanges(c, h, searchAfter) ==
    LET startTime == getConcreteRange(getTime(h, searchAfter), c.range.start)
        endTime == getConcreteRange(getTime(h, searchAfter), c.range.end)
        actualStart == IF Le(startTime, getTime(h, searchAfter))
                       THEN AddDays(startTime, 1)
                       ELSE startTime
    IN  processRanges(h, <<FreshRange(actualStart,
                                      TimeBetweenEndRange(c, actualStart, startTime, endTime))>>)

(* WeekDay.                                                                *)

\* The day with the weekday a week before the most recent one.
WeekDayLastActiveRangeWeekBefore(c, h, date) ==
    Some(FreshRange(Time(getTime(h, date).day - ((getDay(getTime(h, date)) - c.weekDayNumber + 7) % 7) - 7, 0),
                    Time(getTime(h, date).day - ((getDay(getTime(h, date)) - c.weekDayNumber + 7) % 7) - 6, 0)))

WeekDayLastActiveRange(c, h, date) ==
    LET currentDayNumber == getDay(getTime(h, date))
        daysAgo == (currentDayNumber - c.weekDayNumber + 7) % 7
        lastInstanceDate == Time(getTime(h, date).day - daysAgo, 0)
    IN  Some(FreshRange(lastInstanceDate, AddDays(lastInstanceDate, 1)))

\* A search that takes the day of searchAfter itself for the next one.
WeekDayNextRangesSameDay(c, h, searchAfter) ==
    LET currentDay == getDay(getTime(h, searchAfter))
        diff == c.weekDayNumber - currentDay
        daysUntilNextWeekDay == IF diff < 0 THEN diff + 7 ELSE diff
        nextStartDate == Time(getTime(h, searchAfter).day + daysUntilNextWeekDay, 0)
    IN  processRanges(h, <<FreshRange(nextStartDate, AddDays(nextStartDate, 1))>>)

WeekDayNextRanges(c, h, searchAfter) ==
    LET currentDay == getDay(getTime(h, searchAfter))
        diff == c.weekDayNumber - currentDay
        daysUntilNextWeekDay == IF diff <= 0 THEN diff + 7 ELSE diff
        nextStartDate == Time(getTime(h, searchAfter).day + daysUntilNextWeekDay, 0)
    IN  processRanges(h, <<FreshRange(nextStartDate, AddDays(nextStartDate, 1))>>)

(* TimeSpanCond.                                                           *)

TimeSpanEndRange(c, startDate) ==
    LET m == setMonth(startDate, getMonth(startDate) + c.months)
        d == AddDays(m, c.days)
    IN  AddMs(AddMs(AddMs(d, c.hours * MsPerHour), c.minutes * MsPerMinute),
              c.seconds * MsPerSecond)

\* setMilliseconds(0), setSeconds(0), setMinutes(0), setHours(0).
FloorTo(t, unit) == Time(t.day, t.ms - (t.ms % unit))

TimeSpanLastActiveRange(c, h, date) ==
    LET t == getTime(h, date)
        startDate ==
            IF c.seconds # 0 THEN FloorTo(t, MsPerSecond)
            ELSE IF c.minutes # 0 THEN FloorTo(t, MsPerMinute)
            ELSE IF c.hours # 0 THEN FloorTo(t, MsPerHour)
            ELSE IF c.days # 0 THEN FloorTo(t, MsPerDay)
            ELSE setDate(FloorTo(t, MsPerDay), 1)
    IN  Some(FreshRange(startDate, TimeSpanEndRange(c, startDate)))

TimeSpanNextRanges(c, h, searchAfter) ==
    LET t == getTime(h, searchAfter)
        startDate ==
            IF c.seconds > 0 THEN AddMs(FloorTo(t, MsPerSecond), MsPerSecond)
            ELSE IF c.minutes > 0 THEN AddMs(FloorTo(t, MsPerMinute), MsPerMinute)
            ELSE IF c.hours > 0 THEN AddMs(FloorTo(t, MsPerHour), MsPerHour)
            ELSE IF c.days > 0 THEN AddDays(FloorTo(t, MsPerDay), 1)
            ELSE setDate(FloorTo(t, MsPerDay), 1)
    IN  processRanges(h, <<FreshRange(startDate, TimeSpanEndRange(c, startDate))>>)

(* DateBetweenCond: c.startMonthDay and c.endMonthDay are [month, day],     *)
(* the month counted from 0.                                               *)

DateBetweenGetConcreteRange(year, monthDay) == NewDate(year, monthDay.month, monthDay.day)

DateBetweenEndRange(c, relativeTo, startDate, endDate) ==
    AddDays(IF Le(startDate, endDate)
            THEN DateBetweenGetConcreteRange(getFullYear(relativeTo), c.endMonthDay)
            ELSE DateBetweenGetConcreteRange(getFullYear(relativeTo) + 1, c.endMonthDay),
            1)

\* The range from actualStart on.
DateBetweenRange(c, actualStart, startDate, endDate) ==
    FreshRange(actualStart, DateBetweenEndRange(c, actualStart, startDate, endDate))

\* lastActiveRange, given this year's start and end of the band.
DateBetweenLastFrom(c, date, startDate, endDate) ==
    DateBetweenRange(c,
        IF Le(startDate, date)
        THEN startDate
        ELSE setFullYear(startDate, getFullYear(startDate) - 1),
        startDate, endDate)

DateBetweenLastActiveRange(c, h, date) ==
    Some(DateBetweenLastFrom(c, getTime(h, date),
             DateBetweenGetConcreteRange(getFullYear(getTime(h, date)), c.startMonthDay),
             DateBetweenGetConcreteRange(getFullYear(getTime(h, date)), c.endMonthDay)))

\* nextRanges, given this year's start and end of the band.
DateBetweenNextFrom(c, searchAfter, startDate, endDate) ==
    DateBetweenRange(c,
        IF Le(startDate, searchAfter)
        THEN setFullYear(startDate, getFullYear(startDate) + 1)
        ELSE startDate,
        startDate, endDate)

DateBetweenNextRanges(c, h, searchAfter) ==
    processRanges(h,
        <<DateBetweenNextFrom(c, getTime(h, searchAfter),
              DateBetweenGetConcreteRange(getFullYear(getTime(h, searchAfter)), c.startMonthDay),
              DateBetweenGetConcreteRange(getFullYear(getTime(h, searchAfter)), c.endMonthDay))>>)

(* DayBetweenCond: c.range is [start, end], days of the month.             *)

DayBetweenEndRangeStartingOn(c, start) ==
    IF c.range.start <= c.range.end
    THEN NewDate(getFullYear(start), getMonth(start), c.range.end + 1)
    ELSE NewDate(getFullYear(start), getMonth(start) + 1, c.range.end + 1)

\* The range from startDate on.
DayBetweenRange(c, startDate) == FreshRange(startDate, DayBetweenEndRangeStartingOn(c, startDate))

\* lastActiveRange, given the start of the band in the month of the date.
DayBetweenLastFrom(c, date, startDate) ==
    DayBetweenRange(c,
        IF getDate(date) >= c.range.start
        THEN startDate
        ELSE setMonth(startDate, getMonth(startDate) - 1))

DayBetweenLastActiveRange(c, h, date) ==
    Some(DayBetweenLastFrom(c, getTime(h, date),
             NewDate(getFullYear(getTime(h, date)), getMonth(getTime(h, date)), c.range.start)))

\* nextRanges, given the start of the band in the month of searchAfter.
DayBetweenNextFrom(c, searchAfter, startDate) ==
    DayBetweenRange(c,
        IF getDate(searchAfter) >= c.range.start
        THEN setMonth(startDate, getMonth(startDate) + 1)
        ELSE startDate)

DayBetweenNextRanges(c, h, searchAfter) ==
    processRanges(h,
        <<DayBetweenNextFrom(c, getTime(h, searchAfter),
              NewDate(getFullYear(getTime(h, searchAfter)), getMonth(getTime(h, searchAfter)),
                      c.range.start))>>)

---------------------------------------------------------------------------
(* The queries, by class.  The combinators call their children and thread  *)
(* the heap through the calls in the order of the code.  Where the code     *)
(* binds the answer of a call to a local and goes on, the model hands the   *)
(* answer to the operator that goes on.                                     *)

RECURSIVE lastActiveRange(_, _, _)
RECURSIVE nextRanges(_, _, _)
RECURSIVE OrLastActiveRangeLoop(_, _, _, _, _)
RECURSIVE OrNextRangesLoop(_, _, _, _, _)
RECURSIVE AndEnvelopeLoop(_, _, _, _, _, _)
RECURSIVE AndRefineLoop(_, _, _, _, _)
RECURSIVE AndUnionLoop(_, _, _, _)
RECURSIVE AndIntersectLoop(_, _, _, _, _, _, _)
RECURSIVE AndNextEnvelopeLoop(_, _, _, _, _, _)
RECURSIVE NthSeekLoop(_, _, _)
RECURSIVE NthLastLoop(_, _, _, _)
RECURSIVE NthNextLoop(_, _, _)
RECURSIVE FirstAfterStartCollect(_, _, _, _, _)

\* A Date object together with the heap it is read in.
DateIn(d, h) == [d |-> d, h |-> h]

\* cond.lastActiveRange(at.d) and cond.nextRanges(at.d) in the heap at.h.
lastActiveRangeAt(cond, at) == lastActiveRange(cond, at.h, at.d)

nextRangesAt(cond, at) == nextRanges(cond, at.h, at.d)

(* OrCond.                                                                 *)

\* The body of the for loop, given the child's answer.
OrLastActiveRangeStep(c, child, date, i, resultSet) ==
    OrLastActiveRangeLoop(c, child.h, date, i + 1,
        IF child.res # None
        THEN unionImpl(child.h, resultSet, <<child.res[1]>>)
        ELSE resultSet)

OrLastActiveRangeLoop(c, h, date, i, resultSet) ==
    IF i > Len(c.conditions)
    THEN Result(IF Len(resultSet) = 0 THEN None ELSE Some(resultSet[Len(resultSet)]), h)
    ELSE OrLastActiveRangeStep(c, lastActiveRange(c.conditions[i], h, date), date, i, resultSet)

OrLastActiveRange(c, h, date) == OrLastActiveRangeLoop(c, h, date, 1, <<>>)

OrNextRangesStep(c, child, searchAfter, i, resultSet) ==
    OrNextRangesLoop(c, child.h, searchAfter, i + 1, unionImpl(child.h, resultSet, child.res))

OrNextRangesLoop(c, h, searchAfter, i, resultSet) ==
    IF i > Len(c.conditions)
    THEN Result(resultSet, h)
    ELSE OrNextRangesStep(c, nextRanges(c.conditions[i], h, searchAfter), searchAfter, i,
                          resultSet)

OrNextRanges(c, h, searchAfter) == OrNextRangesLoop(c, h, searchAfter, 1, processRanges(h, <<>>))

(* AndCond.                                                                *)

\* The body of the first loop of lastActiveRange, given the child's answer.
AndEnvelopeStep(c, child, date, i, earliestStart, latestEnd) ==
    IF child.res = None
    THEN AndEnvelopeLoop(c, child.h, date, i + 1, earliestStart, latestEnd)
    ELSE LET range == child.res[1]
         IN  AndEnvelopeLoop(c, child.h, date, i + 1,
                 IF earliestStart = None
                    \/ Lt(getTime(child.h, range.start), getTime(child.h, earliestStart[1]))
                 THEN Some(range.start)
                 ELSE earliestStart,
                 IF latestEnd = None
                    \/ (range.end # None /\ Lt(latestEnd[1], range.end[1]))
                 THEN range.end
                 ELSE latestEnd)

\* The first loop of lastActiveRange: the earliest start (a Date object) and
\* the latest end of the children's last active ranges.
AndEnvelopeLoop(c, h, date, i, earliestStart, latestEnd) ==
    IF i > Len(c.conditions)
    THEN [earliestStart |-> earliestStart, latestEnd |-> latestEnd, h |-> h]
    ELSE AndEnvelopeStep(c, lastActiveRange(c.conditions[i], h, date), date, i,
                         earliestStart, latestEnd)

AndRefineStep(c, child, earliestStart, i, earliestStart2) ==
    IF child.res = None
    THEN AndRefineLoop(c, child.h, earliestStart, i + 1, earliestStart2)
    ELSE LET range == child.res[1]
         IN  AndRefineLoop(c, child.h, earliestStart, i + 1,
                 IF earliestStart2 = None
                    \/ Lt(getTime(child.h, range.start), getTime(child.h, earliestStart2[1]))
                 THEN Some(range.start)
                 ELSE earliestStart2)

\* The second loop: the earliest start of the children's ranges at earliestStart.
AndRefineLoop(c, h, earliestStart, i, earliestStart2) ==
    IF i > Len(c.conditions)
    THEN [earliestStart2 |-> earliestStart2, h |-> h]
    ELSE AndRefineStep(c, lastActiveRange(c.conditions[i], h, earliestStart), earliestStart, i,
                       earliestStart2)

\* unionRanges.union(condRanges): the child's answer joins the union; the
\* answer's ranges stay at hand for the loop condition.
AndUnionAdd(unionRanges, condRanges) ==
    [res |-> unionImpl(condRanges.h, unionRanges, condRanges.res),
     condRanges |-> condRanges.res,
     h |-> condRanges.h]

\* The while loop that extends unionRanges with the child's next ranges:
\* it goes on while the last range ends by latestEnd or, when latestEnd is
\* absent, by the query's date (lastActiveRange) or not at all (nextRanges).
AndUnionLoop(cond, u, latestEnd, date) ==
    LET last == lastDate(u.condRanges)
        more == /\ last # None
                /\ IF latestEnd # None
                   THEN Le(last[1], latestEnd[1])
                   ELSE date # None /\ Le(last[1], getTime(u.h, date[1]))
    IN  IF ~more
        THEN Result(u.res, u.h)
        ELSE AndUnionLoop(cond, AndUnionAdd(u.res, nextRanges(cond, u.h, Fresh(last[1]))),
                          latestEnd, date)

\* refStart: the start Date of the child's range at earliestStart (the
\* child's own object), or the copy of earliestStart, moved back by 1 ms.
AndRefStart(condRange, refStart) ==
    setMilliseconds(condRange.h,
                    IF condRange.res # None THEN condRange.res[1].start ELSE refStart,
                    -1)

\* The union of the ranges of one child inside the envelope.
AndChildUnion(cond, h, earliestStart, latestEnd, date) ==
    AndUnionLoop(cond,
        AndUnionAdd(<<>>,
            nextRangesAt(cond,
                AndRefStart(lastActiveRange(cond, h, CopyDate(h, earliestStart)),
                            CopyDate(h, earliestStart)))),
        latestEnd, date)

AndIntersectStep(c, unionRanges, earliestStart, latestEnd, date, i, intersection) ==
    AndIntersectLoop(c, unionRanges.h, earliestStart, latestEnd, date, i + 1,
                     intersectionImpl(unionRanges.h, intersection, unionRanges.res))

\* The third loop: intersect the envelope with each child's ranges inside it.
AndIntersectLoop(c, h, earliestStart, latestEnd, date, i, intersection) ==
    IF i > Len(c.conditions)
    THEN Result(intersection, h)
    ELSE AndIntersectStep(c, AndChildUnion(c.conditions[i], h, earliestStart, latestEnd, date),
                          earliestStart, latestEnd, date, i, intersection)

\* The filter on the intersection and the return.
AndLastKeep(inter, date) ==
    Result(lastRange(SelectSeq(inter.res,
               LAMBDA r : Le(getTime(inter.h, r.start), getTime(inter.h, date)))),
           inter.h)

AndLastFromRefined(c, ref, env, date) ==
    LET earliestStart == IF ref.earliestStart2 # None
                         THEN ref.earliestStart2[1]
                         ELSE env.earliestStart[1]
    IN  AndLastKeep(
            AndIntersectLoop(c, ref.h, earliestStart, env.latestEnd, Some(date), 1,
                processRanges(ref.h, <<Range(earliestStart, env.latestEnd)>>)),
            date)

AndLastFromEnvelope(c, env, date) ==
    IF env.earliestStart = None
    THEN Result(None, env.h)
    ELSE AndLastFromRefined(c, AndRefineLoop(c, env.h, env.earliestStart[1], 1, None), env, date)

AndLastActiveRange(c, h, date) ==
    AndLastFromEnvelope(c, AndEnvelopeLoop(c, h, date, 1, None, None), date)

\* The rest of the body of the first loop of nextRanges, given the child's
\* next ranges and the earliest start after the child's last active range.
AndNextEnvelopeRanges(c, ranges, start1, searchAfter, i, latestEnd) ==
    AndNextEnvelopeLoop(c, ranges.h, searchAfter, i + 1,
        IF start1 = None
           \/ (firstDate(ranges.res) # None
               /\ Lt(getTime(ranges.h, firstDate(ranges.res)[1]), getTime(ranges.h, start1[1])))
        THEN firstDate(ranges.res)
        ELSE start1,
        IF latestEnd = None
           \/ (lastDate(ranges.res) # None /\ Lt(latestEnd[1], lastDate(ranges.res)[1]))
        THEN lastDate(ranges.res)
        ELSE latestEnd)

\* The body of the first loop of nextRanges, given the child's last active range.
AndNextEnvelopeStep(c, child, searchAfter, i, earliestStart, latestEnd) ==
    IF child.res = None
    THEN AndNextEnvelopeLoop(c, child.h, searchAfter, i + 1, earliestStart, latestEnd)
    ELSE AndNextEnvelopeRanges(c, nextRanges(c.conditions[i], child.h, searchAfter),
             IF earliestStart = None
                \/ Lt(getTime(child.h, child.res[1].start), getTime(child.h, earliestStart[1]))
             THEN Some(child.res[1].start)
             ELSE earliestStart,
             searchAfter, i, latestEnd)

\* The first loop of nextRanges.
AndNextEnvelopeLoop(c, h, searchAfter, i, earliestStart, latestEnd) ==
    IF i > Len(c.conditions)
    THEN [earliestStart |-> earliestStart, latestEnd |-> latestEnd, h |-> h]
    ELSE AndNextEnvelopeStep(c, lastActiveRange(c.conditions[i], h, searchAfter), searchAfter, i,
                             earliestStart, latestEnd)

\* The filter on the intersection and the return.
AndNextKeep(inter, searchAfter) ==
    Result(SelectSeq(inter.res,
               LAMBDA r : Lt(getTime(inter.h, searchAfter), getTime(inter.h, r.start))),
           inter.h)

AndNextFromEnvelope(c, env, searchAfter) ==
    IF env.earliestStart = None
    THEN Result(processRanges(env.h, <<>>), env.h)
    ELSE AndNextKeep(
             AndIntersectLoop(c, env.h, env.earliestStart[1], env.latestEnd, None, 1,
                 processRanges(env.h, <<Range(env.earliestStart[1], env.latestEnd)>>)),
             searchAfter)

AndNextRanges(c, h, searchAfter) ==
    AndNextFromEnvelope(c, AndNextEnvelopeLoop(c, h, searchAfter, 1, None, None), searchAfter)

(* NthCond: c.validFrom is the range set cached by the constructor; the    *)
(* starts of its ranges are stored Dates.                                  *)

\* A loop that answers the child's last ranges when the child has no
\* further occurrence.
NthSeekLoopKeep(c, condRangeSet, i) ==
    IF i < c.n /\ lastRange(condRangeSet.res) # None
       /\ lastRange(condRangeSet.res)[1].end # None
    THEN NthSeekLoop(c, nextRanges(c.cond, condRangeSet.h,
                                   Fresh(lastRange(condRangeSet.res)[1].end[1])), i + 1)
    ELSE condRangeSet

\* The for loop of _nextRanges; condRangeSet is the child's latest answer.
NthSeekLoop(c, condRangeSet, i) ==
    IF ~(i < c.n)
    THEN condRangeSet
    ELSE LET last == lastRange(condRangeSet.res)
         IN  IF last = None \/ last[1].end = None
             THEN Result(processRanges(condRangeSet.h, <<>>), condRangeSet.h)
             ELSE NthSeekLoop(c, nextRanges(c.cond, condRangeSet.h, Fresh(last[1].end[1])), i + 1)

Nth_nextRanges(c, h, searchAfter) == NthSeekLoop(c, nextRanges(c.cond, h, searchAfter), 1)

\* The while loop of lastActiveRange; next is the latest answer of _nextRanges.
NthLastLoop(c, date, candidate, next) ==
    IF /\ Len(next.res) > 0
       /\ Le(getTime(next.h, firstDate(next.res)[1]), getTime(next.h, date))
       /\ lastDate(next.res) # None
    THEN NthLastLoop(c, date, next.res,
                     Nth_nextRanges(c, next.h, Fresh(lastDate(next.res)[1])))
    ELSE Result(lastRange(candidate), next.h)

NthLastActiveRange(c, h, date) ==
    LET first == firstDate(c.validFrom)
        last == lastDate(c.validFrom)
    IN  IF first = None \/ Lt(getTime(h, date), getTime(h, first[1]))
        THEN Result(None, h)
        ELSE IF last = None
             THEN Result(lastRange(c.validFrom), h)
             ELSE NthLastLoop(c, date, c.validFrom, Nth_nextRanges(c, h, Fresh(last[1])))

\* The while loop of nextRanges; candidate is the latest answer of _nextRanges.
NthNextLoop(c, searchAfter, candidate) ==
    IF /\ Len(candidate.res) > 0
       /\ Le(getTime(candidate.h, firstDate(candidate.res)[1]), getTime(candidate.h, searchAfter))
    THEN IF lastDate(candidate.res) = None
         THEN Result(processRanges(candidate.h, <<>>), candidate.h)
         ELSE NthNextLoop(c, searchAfter,
                          Nth_nextRanges(c, candidate.h, Fresh(lastDate(candidate.res)[1])))
    ELSE candidate

NthNextRanges(c, h, searchAfter) ==
    NthNextLoop(c, searchAfter, Nth_nextRanges(c, h, Fresh(c.startDate)))

(* FirstAfterStartCond.                                                    *)

\* The start Date of a range, moved back by 1 ms when shift holds: the
\* code moves the range's own Date object.
StartOf(range, h, shift) ==
    IF shift THEN setMilliseconds(h, range.start, -1) ELSE DateIn(range.start, h)

FirstAfterStartLastFirst(relRanges) ==
    IF Len(relRanges.res) = 0
    THEN Result(None, relRanges.h)
    ELSE Result(Some(relRanges.res[1]), relRanges.h)

FirstAfterStartLastFromRef(c, earliestRefRange) ==
    IF earliestRefRange.res = None
    THEN Result(None, earliestRefRange.h)
    ELSE FirstAfterStartLastFirst(
             nextRangesAt(c.relativeCond,
                          StartOf(earliestRefRange.res[1], earliestRefRange.h, c.inclusive)))

FirstAfterStartLastFromRelative(c, earliestRelativeRange) ==
    IF earliestRelativeRange.res = None
    THEN Result(None, earliestRelativeRange.h)
    ELSE FirstAfterStartLastFromRef(c,
             lastActiveRangeAt(c.refCond,
                 StartOf(earliestRelativeRange.res[1], earliestRelativeRange.h, ~c.inclusive)))

FirstAfterStartLastActiveRange(c, h, date) ==
    FirstAfterStartLastFromRelative(c, lastActiveRange(c.relativeCond, h, date))

FirstAfterStartCollectStep(c, childRanges, refRanges, i, relativeRanges) ==
    FirstAfterStartCollect(c, childRanges.h, refRanges, i + 1,
                           unionImpl(childRanges.h, relativeRanges, childRanges.res))

\* The loop over the reference condition's next ranges.
FirstAfterStartCollect(c, h, refRanges, i, relativeRanges) ==
    IF i > Len(refRanges)
    THEN Result(relativeRanges, h)
    ELSE FirstAfterStartCollectStep(c,
             nextRangesAt(c.relativeCond, StartOf(refRanges[i], h, c.inclusive)),
             refRanges, i, relativeRanges)

\* The search outside the reference range, given the reference condition's
\* next ranges.
FirstAfterStartNextOutside(c, refRanges) ==
    FirstAfterStartCollect(c, refRanges.h, refRanges.res, 1, processRanges(refRanges.h, <<>>))

\* Inside the reference range, given the relative condition's next ranges.
FirstAfterStartNextInside(c, rangeSet, searchAfter) ==
    IF /\ Len(rangeSet.res) > 0
       /\ Lt(getTime(rangeSet.h, searchAfter), getTime(rangeSet.h, firstDate(rangeSet.res)[1]))
    THEN rangeSet
    ELSE FirstAfterStartNextOutside(c, nextRanges(c.refCond, rangeSet.h, searchAfter))

FirstAfterStartNextFromRef(c, refRange, searchAfter) ==
    IF refRange.res # None /\ inDateRangeImpl(refRange.h, searchAfter, refRange.res[1])
    THEN FirstAfterStartNextInside(c,
             nextRangesAt(c.relativeCond, StartOf(refRange.res[1], refRange.h, c.inclusive)),
             searchAfter)
    ELSE FirstAfterStartNextOutside(c, nextRanges(c.refCond, refRange.h, searchAfter))

FirstAfterStartNextRanges(c, h, searchAfter) ==
    FirstAfterStartNextFromRef(c, lastActiveRange(c.refCond, h, searchAfter), searchAfter)

(* Cond: the dispatch on the class, and the queries of the base class.     *)

lastActiveRange(c, h, date) ==
    CASE c.type = "TimeDelta" -> Result(TimeDeltaLastActiveRange(c, h, date), h)
      [] c.type = "TimeBetween" -> Result(TimeBetweenLastActiveRange(c, h, date), h)
      [] c.type = "WeekDay" -> Result(WeekDayLastActiveRange(c, h, date), h)
      [] c.type = "TimeSpan" -> Result(TimeSpanLastActiveRange(c, h, date), h)
      [] c.type = "DateBetween" -> Result(DateBetweenLastActiveRange(c, h, date), h)
      [] c.type = "DayBetween" -> Result(DayBetweenLastActiveRange(c, h, date), h)
      [] c.type = "Or" -> OrLastActiveRange(c, h, date)
      [] c.type = "And" -> AndLastActiveRange(c, h, date)
      [] c.type = "Nth" -> NthLastActiveRange(c, h, date)
      [] c.type = "FirstAfterStart" -> FirstAfterStartLastActiveRange(c, h, date)

nextRanges(c, h, searchAfter) ==
    CASE c.type = "TimeDelta" -> Result(TimeDeltaNextRanges(c, h, searchAfter), h)
      [] c.type = "TimeBetween" -> Result(TimeBetweenNextRanges(c, h, searchAfter), h)
      [] c.type = "WeekDay" -> Result(WeekDayNextRanges(c, h, searchAfter), h)
      [] c.type = "TimeSpan" -> Result(TimeSpanNextRanges(c, h, searchAfter), h)
      [] c.type = "DateBetween" -> Result(DateBetweenNextRanges(c, h, searchAfter), h)
      [] c.type = "DayBetween" -> Result(DayBetweenNextRanges(c, h, searchAfter), h)
      [] c.type = "Or" -> OrNextRanges(c, h, searchAfter)
      [] c.type = "And" -> AndNextRanges(c, h, searchAfter)
      [] c.type = "Nth" -> NthNextRanges(c, h, searchAfter)
      [] c.type = "FirstAfterStart" -> FirstAfterStartNextRanges(c, h, searchAfter)

\* inRange, nextStart and currentEnd, given the answer of the query they call.
inRangeOf(range, date) ==
    Result(range.res # None /\ inDateRangeImpl(range.h, date, range.res[1]), range.h)

inRange(c, h, date) == inRangeOf(lastActiveRange(c, h, date), date)

nextStartOf(ranges) == Result(firstDate(ranges.res), ranges.h)

nextStart(c, h, date) == nextStartOf(nextRanges(c, h, date))

currentEndOf(range) == Result(IF range.res = None THEN None ELSE range.res[1].end, range.h)

currentEnd(c, h, date) == currentEndOf(lastActiveRange(c, h, date))

---------------------------------------------------------------------------
(* Construction.  A tree is described by its constructor calls; Build runs *)
(* the constructors and yields the condition and the heap of the Dates the *)
(* conditions keep.  The path of a node is its identity.                   *)

EmptyHeap == [p \in {} |-> <<>>]

TimeDelta(startTime, delta) == [type |-> "TimeDelta", startTime |-> startTime, delta |-> delta]

TimeBetween(startHour, startMinute, endHour, endMinute, inclusive) ==
    [type |-> "TimeBetween",
     start |-> [hour |-> startHour, minute |-> startMinute],
     end |-> [hour |-> endHour, minute |-> endMinute],
     inclusive |-> inclusive]

WeekDay(weekDayNumber) == [type |-> "WeekDay", weekDayNumber |-> weekDayNumber]

TimeSpan(months, days, hours, minutes, seconds) ==
    [type |-> "TimeSpan", months |-> months, days |-> days, hours |-> hours,
     minutes |-> minutes, seconds |-> seconds]

DateBetween(startMonth, startDay, endMonth, endDay) ==
    [type |-> "DateBetween",
     startMonthDay |-> [month |-> startMonth, day |-> startDay],
     endMonthDay |-> [month |-> endMonth, day |-> endDay]]

DayBetween(start, end) == [type |-> "DayBetween", range |-> [start |-> start, end |-> end]]

OrCond(conditions) == [type |-> "Or", conditions |-> conditions]

AndCond(conditions) == [type |-> "And", conditions |-> conditions]

NthCond(startDate, n, cond) == [type |-> "Nth", startDate |-> startDate, n |-> n, cond |-> cond]

FirstAfterStartCond(refCond, relativeCond, inclusive) ==
    [type |-> "FirstAfterStart", refCond |-> refCond, relativeCond |-> relativeCond,
     inclusive |-> inclusive]

MonthBetween(start, end) == [type |-> "MonthBetween", range |-> [start |-> start, end |-> end]]

(* The argument checks of the constructors: TRUE when the constructor      *)
(* throws.                                                                 *)

MonthBetweenThrows(range) ==
    range.start < 0 \/ range.start > 11 \/ range.end < 0 \/ range.end > 11

DateBetweenThrows(start, end) ==
    \/ start.month < 0 \/ start.month > 11 \/ end.month < 0 \/ end.month > 11
    \/ start.day < 1 \/ start.day > 31 \/ end.day < 1 \/ end.day > 31

DayBetweenThrows(range) ==
    range.start < 1 \/ range.start > 31 \/ range.end < 1 \/ range.end > 31

\* A check that lets the number 7 through.
WeekDayThrowsAboveSeven(weekDayNumber) == weekDayNumber < 0 \/ weekDayNumber > 7

WeekDayThrows(weekDayNumber) == weekDayNumber < 0 \/ weekDayNumber > 6

TimeSpanThrows(c) ==
    \/ c.months < 0 \/ c.days < 0 \/ c.hours < 0 \/ c.minutes < 0 \/ c.seconds < 0
    \/ (c.months = 0 /\ c.days = 0 /\ c.hours = 0 /\ c.minutes = 0 /\ c.seconds = 0)

ListThrows(conditions) == Len(conditions) = 0

\* The constructor of the class of desc throws on its arguments.
Throws(desc) ==
    CASE desc.type = "MonthBetween" -> MonthBetweenThrows(desc.range)
      [] desc.type = "DateBetween" -> DateBetweenThrows(desc.startMonthDay, desc.endMonthDay)
      [] desc.type = "DayBetween" -> DayBetweenThrows(desc.range)
      [] desc.type = "WeekDay" -> WeekDayThrows(desc.weekDayNumber)
      [] desc.type = "TimeSpan" -> TimeSpanThrows(desc)
      [] desc.type \in {"Or", "And"} -> ListThrows(desc.conditions)
      [] OTHER -> FALSE

RECURSIVE Build(_, _)
RECURSIVE BuildAll(_, _, _)

\* One more child built, in front of those built after it.
BuildJoin(one, rest) == [cs |-> <<one.c>> \o rest.cs, h |-> one.h @@ rest.h]

BuildAll(descs, path, i) ==
    IF i > Len(descs)
    THEN [cs |-> <<>>, h |-> EmptyHeap]
    ELSE BuildJoin(Build(descs[i], Append(path, i)), BuildAll(descs, path, i + 1))

\* NthCond's constructor: validFrom keeps the Date objects of the child's
\* answer; those the child made for the answer become Dates stored here.
NthKeep(path, h, ranges) ==
    [i \in 1..Len(ranges) |->
        IF ranges[i].start.own = <<>>
        THEN Range(Stored(path, i), ranges[i].end)
        ELSE ranges[i]]

\* NthCond's constructor before validFrom is set.
NthProto(desc, path, cond) ==
    [type |-> "Nth", id |-> path, startDate |-> desc.startDate, n |-> desc.n, cond |-> cond,
     validFrom |-> <<>>]

\* NthCond's constructor, given the answer of its call of _nextRanges.
BuildNthFrom(desc, path, cond, found) ==
    [c |-> [NthProto(desc, path, cond) EXCEPT !.validFrom = NthKeep(path, found.h, found.res)],
     h |-> found.h @@ (path :> [i \in 1..Len(found.res) |->
                                   getTime(found.h, found.res[i].start)])]

BuildNth(desc, path, child) ==
    BuildNthFrom(desc, path, child.c,
                 Nth_nextRanges(NthProto(desc, path, child.c), child.h, Fresh(desc.startDate)))

BuildFirstAfterStart(desc, ref, rel) ==
    [c |-> [type |-> "FirstAfterStart", refCond |-> ref.c, relativeCond |-> rel.c,
            inclusive |-> desc.inclusive],
     h |-> ref.h @@ rel.h]

BuildList(desc, all) == [c |-> [type |-> desc.type, conditions |-> all.cs], h |-> all.h]

Build(desc, path) ==
    CASE desc.type = "TimeDelta" ->
            [c |-> [type |-> "TimeDelta", id |-> path, delta |-> desc.delta],
             h |-> (path :> <<AddMs(desc.startTime, desc.delta)>>)]
      [] desc.type = "TimeBetween" ->
            [c |-> [type |-> "TimeBetween",
                    range |-> [start |-> desc.start,
                               end |-> TimeBetweenEnd(desc.end, desc.inclusive)]],
             h |-> EmptyHeap]
      [] desc.type \in {"WeekDay", "TimeSpan", "DateBetween", "DayBetween", "MonthBetween"} ->
            [c |-> desc, h |-> EmptyHeap]
      [] desc.type \in {"Or", "And"} ->
            BuildList(desc, BuildAll(desc.conditions, path, 1))
      [] desc.type = "Nth" -> BuildNth(desc, path, Build(desc.cond, Append(path, 1)))
      [] desc.type = "FirstAfterStart" ->
            BuildFirstAfterStart(desc, Build(desc.refCond, Append(path, 1)),
                                 Build(desc.relativeCond, Append(path, 2)))

\* What a caller sees of a returned range, Date or range set at the moment
\* of the return.
ViewRange(h, range) == [start |-> getTime(h, range.start), end |-> range.end]

ViewOptRange(h, r) == IF r = None THEN None ELSE Some(ViewRange(h, r[1]))

ViewOptDate(h, d) == IF d = None THEN None ELSE Some(getTime(h, d[1]))

ViewRanges(h, ranges) == [i \in 1..Len(ranges) |-> ViewRange(h, ranges[i])]

---------------------------------------------------------------------------
(* The conditions and instants the model explores.                         *)

\* The number of consecutive days, from Monday 2024-01-08, queries fall on.
NumDays == 3

\* How many queries that change a stored Date one run may make.
MaxDrift == 2

BaseDay == DaysFromCivil(2024, 1, 8)

At(d, hour, minute) == Time(BaseDay + d, hour * MsPerHour + minute * MsPerMinute)

\* The hours queried on each day: midnight, the bounds and the inside of
\* the windows below, and the instant DeltaSoon becomes valid.
Hours == {0, 9, 10, 13, 17, 23}

\* Every such instant, and the millisecond before it.
Instants ==
    UNION {{At(d, hour, 0), AddMs(At(d, hour, 0), -1)} : d \in 0..(NumDays - 1), hour \in Hours}

\* The number of calendar years, from the year before BaseDay's, the
\* queries of the calendar conditions fall in: a common year, then a leap
\* year.
NumYears == 2

Years == (getFullYear(Time(BaseDay, 0)) - 1)..(getFullYear(Time(BaseDay, 0)) + NumYears - 2)

\* The months (from 0) and the days of the month queried in each year: the
\* bounds of the bands below, the days next to them, and the ends of the
\* months.  A day a month does not have falls in the next month.
ProbeMonths == {0, 1, 2, 3, 4, 5, 11}

ProbeDays == {1, 2, 5, 6, 9, 10, 15, 16, 20, 21, 28, 29, 30, 31}

\* Midnight of every such day, and the millisecond before it.
CalendarInstants ==
    UNION {{NewDate(y, m, d), AddMs(NewDate(y, m, d), -1)} :
               y \in Years, m \in ProbeMonths, d \in ProbeDays}

\* The instants a condition is queried at.
Dates(c) == IF c.type \in {"DateBetween", "DayBetween"} THEN CalendarInstants ELSE Instants

DeltaSoon == TimeDelta(At(0, 12, 0), MsPerHour)
DeltaLate == TimeDelta(At(0, 12, 0), 10 * MsPerDay)
WorkHours == TimeBetween(9, 0, 17, 0, FALSE)
Overnight == TimeBetween(22, 0, 2, 0, FALSE)
Anytime == TimeBetween(0, 0, 24, 0, FALSE)
Monday == WeekDay(1)
Wednesday == WeekDay(3)
ThreeHours == TimeSpan(0, 0, 3, 0, 0)
OneMonth == TimeSpan(1, 0, 0, 0, 0)

Leaves == {DeltaSoon, DeltaLate, WorkHours, Overnight, Anytime, Monday, Wednesday,
           ThreeHours, OneMonth}

\* Sunday 2024-01-07 at noon: the startDate of the NthCond trees.
Anchor == At(-1, 12, 0)

LunchTime == TimeBetween(12, 0, 13, 0, FALSE)
FirstMonOrWed == NthCond(Anchor, 1, OrCond(<<Monday, Wednesday>>))
SecondWorkHours == NthCond(Anchor, 2, WorkHours)
FirstDelta == NthCond(Anchor, 1, DeltaSoon)
FirstMonday == NthCond(Anchor, 1, Monday)

NthTrees == {FirstMonOrWed, SecondWorkHours, FirstDelta, FirstMonday}

FirstAfterStartTrees ==
    {FirstAfterStartCond(ref, rel, inclusive) :
        ref \in {Monday, DeltaSoon, SecondWorkHours},
        rel \in {LunchTime, DeltaSoon},
        inclusive \in BOOLEAN}

Lists(S) == {<<a>> : a \in S} \cup {<<a, b>> : a \in S, b \in S}

\* AndCond over one or two children.  OneMonth is left to Trees: a pair with
\* a month-long child makes AndCond enumerate the month range by range.
AndTrees == {AndCond(l) : l \in Lists((Leaves \ {OneMonth}) \cup {FirstMonday})}

OrTrees == {OrCond(l) : l \in Lists(Leaves \cup {FirstMonOrWed})}

\* CondFactory.workday() with the week starting on Monday.
Workday == OrCond(<<WeekDay(1), WeekDay(2), WeekDay(3), WeekDay(4), WeekDay(5)>>)

\* Every class of condition, alone and as the child of a combinator.
Trees ==
    Leaves \cup NthTrees \cup FirstAfterStartTrees \cup {Workday}
    \cup {AndCond(<<c>>) : c \in Leaves \cup NthTrees}
    \cup {OrCond(<<c>>) : c \in Leaves \cup NthTrees}
    \cup {AndCond(<<Monday, WorkHours>>), OrCond(<<Monday, WorkHours>>),
          AndCond(<<FirstDelta, WorkHours>>), OrCond(<<FirstDelta, WorkHours>>)}

---------------------------------------------------------------------------
(* The state machine: a condition tree is built, then queried.             *)

VARIABLES
    cond,     \* the condition tree
    built,    \* the stored Dates as the constructors left them
    heap,     \* the stored Dates now
    last,     \* the query being answered: [op, date, res, pre], or Idle
    drift,    \* the number of queries so far that changed a stored Date
    dateRangeSet,  \* the ranges of a DateRangeSet a caller holds
    setCall   \* the method call on it being answered, or Idle

vars == <<cond, built, heap, last, drift, dateRangeSet, setCall>>

Idle == [op |-> "idle"]

\* The state after construction, given what Build yields.
Built(b) ==
    /\ cond = b.c
    /\ built = b.h
    /\ heap = b.h
    /\ last = Idle
    /\ drift = 0
    /\ dateRangeSet = <<>>
    /\ setCall = Idle

Start(descs) == \E desc \in descs : Built(Build(desc, <<0>>))

\* A query's answer as the caller sees it at the return.
SeenOptRange(r) == Result(ViewOptRange(r.h, r.res), r.h)

SeenRanges(r) == Result(ViewRanges(r.h, r.res), r.h)

SeenOptDate(r) == Result(ViewOptDate(r.h, r.res), r.h)

\* A caller may ask: no answer is pending, and the stored Dates have
\* changed fewer than MaxDrift times.
Ready == last = Idle /\ drift < MaxDrift

\* A query returns r: its answer as the caller sees it, and the heap it left.
Answer(op, date, r) == [op |-> op, date |-> date, res |-> r.res, pre |-> heap]

Drift(r) == IF r.h = heap THEN drift ELSE drift + 1

InRange ==
    /\ Ready
    /\ \E date \in Dates(cond) :
          \E r \in {inRange(cond, heap, Fresh(date))} :
              /\ last' = Answer("inRange", date, r)
              /\ heap' = r.h
              /\ drift' = Drift(r)
    /\ UNCHANGED <<cond, built, dateRangeSet, setCall>>

LastActiveRange ==
    /\ Ready
    /\ \E date \in Dates(cond) :
          \E r \in {SeenOptRange(lastActiveRange(cond, heap, Fresh(date)))} :
              /\ last' = Answer("lastActiveRange", date, r)
              /\ heap' = r.h
              /\ drift' = Drift(r)
    /\ UNCHANGED <<cond, built, dateRangeSet, setCall>>

NextRanges ==
    /\ Ready
    /\ \E date \in Dates(cond) :
          \E r \in {SeenRanges(nextRanges(cond, heap, Fresh(date)))} :
              /\ last' = Answer("nextRanges", date, r)
              /\ heap' = r.h
              /\ drift' = Drift(r)
    /\ UNCHANGED <<cond, built, dateRangeSet, setCall>>

NextStart ==
    /\ Ready
    /\ \E date \in Dates(cond) :
          \E r \in {SeenOptDate(nextStart(cond, heap, Fresh(date)))} :
              /\ last' = Answer("nextStart", date, r)
              /\ heap' = r.h
              /\ drift' = Drift(r)
    /\ UNCHANGED <<cond, built, dateRangeSet, setCall>>

CurrentEnd ==
    /\ Ready
    /\ \E date \in Dates(cond) :
          \E r \in {currentEnd(cond, heap, Fresh(date))} :
              /\ last' = Answer("currentEnd", date, r)
              /\ heap' = r.h
              /\ drift' = Drift(r)
    /\ UNCHANGED <<cond, built, dateRangeSet, setCall>>

\* The caller is done with the answer.
Done ==
    /\ last # Idle
    /\ last' = Idle
    /\ UNCHANGED <<cond, built, heap, drift, dateRangeSet, setCall>>

Next == InRange \/ LastActiveRange \/ NextRanges \/ NextStart \/ CurrentEnd \/ Done

Init == Start(Trees)

Spec == Init /\ [][Next]_vars

InitAnd == Start(AndTrees)

SpecAnd == InitAnd /\ [][Next]_vars

InitOr == Start(OrTrees)

SpecOr == InitOr /\ [][Next]_vars

\* TimeDeltaCond alone: the delay ends the same day, ten days later, at the
\* next midnight, or, the delta negative, an hour before the anchor.
DeltaConds ==
    {DeltaSoon, DeltaLate, TimeDelta(At(0, 23, 0), MsPerHour), TimeDelta(At(1, 0, 0), -MsPerHour)}

InitDelta == Start(DeltaConds)

SpecDelta == InitDelta /\ [][Next]_vars

\* WeekDay alone, for each day of the week.
\* Bands of the year: within one year, over the new year, one day, ending
\* on the leap day, starting on the leap day.
DateBetweenConds ==
    {DateBetween(2, 15, 5, 20), DateBetween(11, 10, 1, 5), DateBetween(5, 15, 5, 15),
     DateBetween(1, 1, 1, 29), DateBetween(1, 29, 2, 10)}

InitDateBetween == Start(DateBetweenConds)

SpecDateBetween == InitDateBetween /\ [][Next]_vars

\* Bands of the month: within one month, over the end of the month, one
\* day, up to the 31st, from the 30th.
DayBetweenConds ==
    {DayBetween(10, 20), DayBetween(25, 5), DayBetween(15, 15), DayBetween(10, 31),
     DayBetween(30, 5)}

InitDayBetween == Start(DayBetweenConds)

SpecDayBetween == InitDayBetween /\ [][Next]_vars

\* Spans whose smallest unit is the second, the minute, the hour, the day
\* and the month.
TimeSpanConds ==
    {TimeSpan(0, 0, 0, 0, 30), TimeSpan(0, 0, 1, 15, 0), ThreeHours, TimeSpan(0, 2, 0, 0, 0),
     TimeSpan(1, 1, 0, 0, 0), OneMonth}

InitTimeSpan == Start(TimeSpanConds)

SpecTimeSpan == InitTimeSpan /\ [][Next]_vars

\* The largest n of the NthConds explored.
MaxN == 3

\* The anchors of the NthConds: Sunday noon, Monday 00:00 and 9:00, where
\* Monday, a working day and the working hours start, and Monday 17:00,
\* after DeltaSoon became valid.
Anchors == {Anchor, At(0, 0, 0), At(0, 9, 0), At(0, 17, 0)}

\* The n-th Monday, working hours, working day, and the n-th time a
\* TimeDeltaCond comes true, which happens once.
NthConds ==
    {NthCond(anchor, n, child) :
        anchor \in Anchors, n \in 1..MaxN, child \in {Monday, WorkHours, Workday, DeltaSoon}}

InitNth == Start(NthConds)

SpecNth == InitNth /\ [][Next]_vars

\* "First B after the start of A", B a time of day, a TimeDeltaCond or
\* "Tuesday or Thursday".
FirstAfterStartConds ==
    FirstAfterStartTrees
    \cup {FirstAfterStartCond(Monday, OrCond(<<WeekDay(2), WeekDay(4)>>), inclusive) :
              inclusive \in BOOLEAN}

InitFirstAfterStart == Start(FirstAfterStartConds)

SpecFirstAfterStart == InitFirstAfterStart /\ [][Next]_vars

\* The authored times of day: midnight, times a minute apart, the bounds of
\* the working hours and of the night, and 24:00 as an end.
StartTimes == {<<0, 0>>, <<0, 1>>, <<9, 0>>, <<10, 0>>, <<10, 1>>, <<22, 0>>, <<23, 59>>}

EndTimes == {<<0, 0>>, <<0, 1>>, <<2, 0>>, <<9, 59>>, <<10, 0>>, <<17, 0>>, <<23, 59>>, <<24, 0>>}

TimeBetweenConds ==
    {TimeBetween(p[1][1], p[1][2], p[2][1], p[2][2], inclusive) :
        p \in {q \in StartTimes \X EndTimes : q[1] # q[2]}, inclusive \in BOOLEAN}

InitTimeBetween == Start(TimeBetweenConds)

SpecTimeBetween == InitTimeBetween /\ [][Next]_vars

WeekDayConds == {WeekDay(n) : n \in 0..6}

InitWeekDay == Start(WeekDayConds)

SpecWeekDay == InitWeekDay /\ [][Next]_vars

---------------------------------------------------------------------------
(* A DateRangeSet on its own: it is constructed from a list of ranges,     *)
(* then other sets are merged into it or intersected with it, and it is    *)
(* asked for the range that holds a date.                                  *)

\* The instants range bounds and queried dates are drawn from: the first
\* MaxPoint + 1 milliseconds of the base day.
MaxPoint == 4

\* The length of the longest list a DateRangeSet is constructed from.
MaxRanges == 2

Points == {Time(BaseDay, p) : p \in 0..MaxPoint}

\* The DateRanges: start < end when the end is present.
DateRanges ==
    {FreshRange(p[1], p[2]) : p \in {q \in Points \X Points : Lt(q[1], q[2])}}
        \cup {Range(Fresh(s), None) : s \in Points}

RangeLists == UNION {[1..n -> DateRanges] : n \in 0..MaxRanges}

\* new DateRangeSet(ranges).ranges
NewDateRangeSet(ranges) == processRanges(EmptyHeap, ranges)

DateRangeSets == {NewDateRangeSet(ranges) : ranges \in RangeLists}

NoCond ==
    /\ cond = None
    /\ built = EmptyHeap
    /\ heap = EmptyHeap
    /\ last = Idle
    /\ drift = 0

InitRangeSet ==
    /\ NoCond
    /\ \E ranges \in RangeLists : dateRangeSet = NewDateRangeSet(ranges)
    /\ setCall = Idle

SetUnion ==
    /\ setCall = Idle
    /\ \E other \in DateRangeSets :
          /\ dateRangeSet' = unionImpl(EmptyHeap, dateRangeSet, other)
          /\ setCall' = [op |-> "union", this |-> dateRangeSet, other |-> other]
    /\ UNCHANGED <<cond, built, heap, last, drift>>

SetIntersection ==
    /\ setCall = Idle
    /\ \E other \in DateRangeSets :
          /\ dateRangeSet' = intersectionImpl(EmptyHeap, dateRangeSet, other)
          /\ setCall' = [op |-> "intersection", this |-> dateRangeSet, other |-> other]
    /\ UNCHANGED <<cond, built, heap, last, drift>>

SetInRange ==
    /\ setCall = Idle
    /\ \E date \in Points :
          setCall' = [op |-> "inRange", date |-> date,
                      res |-> inRangeImpl(EmptyHeap, Fresh(date), dateRangeSet)]
    /\ UNCHANGED <<cond, built, heap, last, drift, dateRangeSet>>

\* The caller is done with the answer.
SetDone ==
    /\ setCall # Idle
    /\ setCall' = Idle
    /\ UNCHANGED <<cond, built, heap, last, drift, dateRangeSet>>

NextRangeSet == SetUnion \/ SetIntersection \/ SetInRange \/ SetDone

SpecRangeSet == InitRangeSet /\ [][NextRangeSet]_vars

(* Construction with arguments inside and outside the domains.            *)

\* How far outside their domain the arguments of the constructors go.
Slack == 1

Months == (0 - Slack)..(11 + Slack)

\* The first and last days of the domain and those outside it.
Days == ((1 - Slack)..1) \cup (31..(31 + Slack))

\* The first and last months of the domain and those outside it.
EdgeMonths == ((0 - Slack)..0) \cup (11..(11 + Slack))

Amounts == (0 - Slack)..Slack

\* The arguments constructors are called with.
Arguments ==
    {MonthBetween(s, e) : s \in Months, e \in Months}
    \cup {DateBetween(sm, sd, em, ed) : sm \in EdgeMonths, sd \in Days, em \in EdgeMonths, ed \in Days}
    \cup {DayBetween(s, e) : s \in (1 - Slack)..(31 + Slack), e \in Days}
    \cup {WeekDay(n) : n \in (0 - Slack)..(6 + Slack)}
    \cup {TimeSpan(mo, d, h, mi, s) :
              mo \in Amounts, d \in Amounts, h \in Amounts, mi \in Amounts, s \in Amounts}
    \cup {OrCond(l) : l \in {<<>>, <<Monday>>, <<Monday, WorkHours>>}}
    \cup {AndCond(l) : l \in {<<>>, <<Monday>>, <<Monday, WorkHours>>}}

InitConstruct == NoCond /\ dateRangeSet = <<>> /\ setCall = Idle

\* new C(arguments): the constructor throws and there is no condition, or
\* the condition is built.
New ==
    /\ last = Idle
    /\ cond = None
    /\ \E desc \in Arguments :
          \E b \in {IF Throws(desc) THEN [c |-> None, h |-> EmptyHeap] ELSE Build(desc, <<0>>)} :
             /\ cond' = b.c
             /\ built' = b.h
             /\ heap' = b.h
             /\ last' = [op |-> "new", desc |-> desc, threw |-> Throws(desc)]
    /\ UNCHANGED <<drift, dateRangeSet, setCall>>

\* The caller drops the condition or the error.
Discard ==
    /\ last # Idle
    /\ cond' = None
    /\ built' = EmptyHeap
    /\ heap' = EmptyHeap
    /\ last' = Idle
    /\ UNCHANGED <<drift, dateRangeSet, setCall>>

NextConstruct == New \/ Discard

SpecConstruct == InitConstruct /\ [][NextConstruct]_vars

\* ---------------------------------------------------------------------------
\* The parser's time literals: <number>[:<number>] [am|pm].
\* ---------------------------------------------------------------------------

\* The largest numbers the lexer hands over in a literal.
MaxHour == 25

MaxMinute == 61

\* No suffix, am or pm.
Suffixes == {"", "am", "pm"}

\* A literal: an hour, a minute when a colon follows, a suffix.
Literals ==
    {[hour |-> h, colon |-> FALSE, minute |-> 0, suffix |-> s] : h \in 0..MaxHour, s \in Suffixes}
    \cup {[hour |-> h, colon |-> TRUE, minute |-> m, suffix |-> s] :
              h \in 0..MaxHour, m \in 0..MaxMinute, s \in Suffixes}

\* this.error(...): the parse stops with an error.
ParseError == [threw |-> TRUE, value |-> None]

\* return { hour, minute }
Parsed(hour, minute) == [threw |-> FALSE, value |-> Some([hour |-> hour, minute |-> minute])]

\* Parser.parseDayTime, given the hour and the minute read so far.
parseDayTimeSuffix(hour, minute, suffix) ==
    CASE suffix = "am" -> IF hour > 12 THEN ParseError ELSE Parsed(hour, minute)
      [] suffix = "pm" -> IF hour > 12 THEN ParseError ELSE Parsed(hour + 12, minute)
      [] OTHER -> IF hour > 23 THEN ParseError ELSE Parsed(hour, minute)

\* Parser.parseDayTime: the minute is 0 unless a colon follows the hour.
parseDayTime(literal) ==
    parseDayTimeSuffix(literal.hour, IF literal.colon THEN literal.minute ELSE 0, literal.suffix)

\* The parser reads a time literal.
ParseDayTime ==
    /\ last = Idle
    /\ \E literal \in Literals :
          \E r \in {parseDayTime(literal)} :
             last' = [op |-> "parseDayTime", literal |-> literal, threw |-> r.threw, value |-> r.value]
    /\ UNCHANGED <<cond, built, heap, drift, dateRangeSet, setCall>>

NextParse == ParseDayTime \/ Discard

SpecParse == InitConstruct /\ [][NextParse]_vars

---------------------------------------------------------------------------
(* Properties.  A query's answer is judged in the state where it is        *)
(* returned: last holds the operation, its date, the answer as the caller  *)
(* sees it, and the stored Dates as they were when the query began.        *)

AllChildrenInRange(c, h, date) ==
    \A i \in 1..Len(c.conditions) : inRange(c.conditions[i], h, Fresh(date)).res

SomeChildInRange(c, h, date) ==
    \E i \in 1..Len(c.conditions) : inRange(c.conditions[i], h, Fresh(date)).res

\* C1: AndCond(children).inRange(t) is true exactly when every child's
\* inRange(t) is true.
C1_AndInRangeIffAllChildren ==
    (last.op = "inRange" /\ cond.type = "And")
        => (last.res = AllChildrenInRange(cond, last.pre, last.date))

\* C2: OrCond(children).inRange(t) is true exactly when some child's
\* inRange(t) is true.
C2_OrInRangeIffSomeChild ==
    (last.op = "inRange" /\ cond.type = "Or")
        => (last.res = SomeChildInRange(cond, last.pre, last.date))

\* C3: no query changes a condition's stored state: after any sequence of
\* queries every stored Date (the validFrom of each TimeDeltaCond and
\* NthCond) is as the constructor left it.
C3_QueriesLeaveStoredStateUnchanged == heap = built

\* C4: a defined lastActiveRange(t) starts at or before t.
C4_LastActiveRangeStartsNotAfter ==
    (last.op = "lastActiveRange" /\ last.res # None)
        => Le(last.res[1].start, last.date)

\* C5: every range of nextRanges(t) starts strictly after t.
C5_NextRangesStartAfter ==
    last.op = "nextRanges"
        => \A i \in 1..Len(last.res) : Lt(last.date, last.res[i].start)

\* C6: when inRange(t) is false and nextStart(t) is a date s, inRange(s) is
\* true and inRange(u) is false at every instant u with t < u < s.
C6_NextStartIsFirstInRange ==
    (/\ last.op = "nextStart"
     /\ last.res # None
     /\ ~inRange(cond, last.pre, Fresh(last.date)).res)
        => /\ inRange(cond, heap, Fresh(last.res[1])).res
           /\ \A u \in Instants :
                 (Lt(last.date, u) /\ Lt(u, last.res[1]))
                     => ~inRange(cond, heap, Fresh(u)).res

\* The instants of Instants at or before t at which every child is in range.
SatisfiedUpTo(c, h, t) == {u \in Instants : Le(u, t) /\ AllChildrenInRange(c, h, u)}

\* The instants of Instants after t at which an interval of every child
\* being in range begins.
SatisfiedStartsAfter(c, h, t) ==
    {u \in Instants : /\ Lt(t, u)
                      /\ AllChildrenInRange(c, h, u)
                      /\ ~AllChildrenInRange(c, h, AddMs(u, -1))}

\* C7: AndCond.lastActiveRange(t) is the most recent interval starting at or
\* before t in which all children are satisfied: it starts at or before t,
\* every child is in range throughout it, no instant up to t after its end
\* satisfies every child; it is undefined only when no instant up to t
\* satisfies every child.
C7_AndLastActiveRangeIsMostRecent ==
    (last.op = "lastActiveRange" /\ cond.type = "And")
        => IF last.res = None
           THEN SatisfiedUpTo(cond, last.pre, last.date) = {}
           ELSE LET r == last.res[1]
                    inside(u) == Le(r.start, u) /\ (r.end = None \/ Lt(u, r.end[1]))
                IN  /\ Le(r.start, last.date)
                    /\ \A u \in Instants : inside(u) => AllChildrenInRange(cond, last.pre, u)
                    /\ \A u \in SatisfiedUpTo(cond, last.pre, last.date) :
                          r.end = None \/ Lt(u, r.end[1])

\* C8: AndCond.nextRanges(t) is non-empty, with the earliest interval after t
\* in which all children are satisfied first, whenever such an interval
\* exists; it is empty only when none exists.
C8_AndNextRangesEarliestFirst ==
    (last.op = "nextRanges" /\ cond.type = "And")
        => IF Len(last.res) = 0
           THEN SatisfiedStartsAfter(cond, last.pre, last.date) = {}
           ELSE LET first == last.res[1]
                IN  /\ Lt(last.date, first.start)
                    /\ AllChildrenInRange(cond, last.pre, first.start)
                    /\ \A u \in SatisfiedStartsAfter(cond, last.pre, last.date) :
                          Le(first.start, u)

\* AndCond([A, B]) as AndCond([B, A]): the same children, in the other order.
Swapped(c) ==
    [c EXCEPT !.conditions = [i \in 1..Len(c.conditions) |->
                                 c.conditions[Len(c.conditions) + 1 - i]]]

\* C9: AndCond([A, B]) and AndCond([B, A]) answer lastActiveRange(t) and
\* nextRanges(t) alike.
C9_AndIsCommutative ==
    (cond.type = "And" /\ Len(cond.conditions) = 2)
        => /\ last.op = "lastActiveRange"
                => last.res = SeenOptRange(lastActiveRange(Swapped(cond), last.pre,
                                                           Fresh(last.date))).res
           /\ last.op = "nextRanges"
                => last.res = SeenRanges(nextRanges(Swapped(cond), last.pre,
                                                    Fresh(last.date))).res

\* C10: OrCond([C]).lastActiveRange(t) and AndCond([C]).lastActiveRange(t)
\* each equal C.lastActiveRange(t).
C10_SingleChildIsTransparent ==
    (/\ last.op = "lastActiveRange"
     /\ cond.type \in {"And", "Or"}
     /\ Len(cond.conditions) = 1)
        => last.res = SeenOptRange(lastActiveRange(cond.conditions[1], last.pre,
                                                   Fresh(last.date))).res

\* C15: when inRange(t) is true and currentEnd(t) is a date e, inRange(u) is
\* true at every instant u with t <= u < e and inRange(e) is false.
C15_CurrentEndIsWhereRangeStops ==
    (/\ last.op = "currentEnd"
     /\ last.res # None
     /\ inRange(cond, last.pre, Fresh(last.date)).res)
        => /\ \A u \in Instants :
                 (Le(last.date, u) /\ Lt(u, last.res[1])) => inRange(cond, heap, Fresh(u)).res
           /\ ~inRange(cond, heap, Fresh(last.res[1])).res

\* C16: currentEnd(t) is undefined whenever inRange(t) is false, and
\* whenever the last active range at t has no end.
C16_CurrentEndUndefinedOutsideRange ==
    last.op = "currentEnd"
        => /\ ~inRange(cond, last.pre, Fresh(last.date)).res => last.res = None
           /\ LET range == lastActiveRange(cond, last.pre, Fresh(last.date)).res
              IN  (range # None /\ range[1].end = None) => last.res = None

\* A Date value in milliseconds since 00:00 of the base day.
ToMs(t) == (t.day - BaseDay) * MsPerDay + t.ms

\* C17: for TimeDeltaCond(anchor, delta) with validFrom = anchor + delta,
\* lastActiveRange(t) is [validFrom, no end) when t >= validFrom and
\* undefined otherwise; nextRanges(t) is empty when t >= validFrom and is
\* the one range [validFrom, no end) otherwise.
C17_TimeDeltaOpensAtValidFrom ==
    \A desc \in DeltaConds :
        Build(desc, <<0>>) = [c |-> cond, h |-> built]
            => LET validFrom == ToMs(desc.startTime) + desc.delta
                   open(r) == ToMs(r.start) = validFrom /\ r.end = None
               IN  /\ last.op = "lastActiveRange"
                        => IF ToMs(last.date) >= validFrom
                           THEN last.res # None /\ open(last.res[1])
                           ELSE last.res = None
                   /\ last.op = "nextRanges"
                        => IF ToMs(last.date) >= validFrom
                           THEN last.res = <<>>
                           ELSE Len(last.res) = 1 /\ open(last.res[1])

\* lastActiveRange has answered at the instant validFrom itself.
C17_AskedAtValidFrom ==
    /\ cond.type = "TimeDelta"
    /\ last.op = "lastActiveRange"
    /\ last.date = built[cond.id][1]
    /\ last.res # None

\* C18: for WeekDay(n), lastActiveRange(t) is the day, from 00:00 to the next
\* 00:00, of the most recent day with weekday n at or before t's day, and
\* nextRanges(t) is the single day starting 7 days after that start, the
\* nearest day with weekday n after t's day.
C18_WeekDayIsMostRecentAndNextDay ==
    cond.type = "WeekDay"
        => /\ last.op = "lastActiveRange"
                => /\ last.res # None
                   /\ last.res[1].start.ms = 0
                   /\ getDay(last.res[1].start) = cond.weekDayNumber
                   /\ last.res[1].start.day <= last.date.day
                   /\ last.date.day - last.res[1].start.day < 7
                   /\ last.res[1].end = Some(Time(last.res[1].start.day + 1, 0))
           /\ last.op = "nextRanges"
                => /\ Len(last.res) = 1
                   /\ last.res[1].start
                          = AddDays(SeenOptRange(lastActiveRange(cond, last.pre,
                                                                 Fresh(last.date))).res[1].start, 7)
                   /\ last.res[1].start.ms = 0
                   /\ getDay(last.res[1].start) = cond.weekDayNumber
                   /\ last.res[1].start.day > last.date.day
                   /\ last.res[1].start.day - last.date.day <= 7
                   /\ last.res[1].end = Some(Time(last.res[1].start.day + 1, 0))

\* nextRanges has answered on a day whose weekday is n.
C18_NextAskedOnTheWeekDay ==
    /\ cond.type = "WeekDay"
    /\ last.op = "nextRanges"
    /\ getDay(last.date) = cond.weekDayNumber
    /\ Len(last.res) = 1

\* The invariants of a range set: strictly sorted by start, every range but
\* the last with an end, and every range ending before each later one starts.
Canonical(rs) ==
    /\ \A i \in 1..Len(rs) : rs[i].end # None => Lt(getTime(EmptyHeap, rs[i].start), rs[i].end[1])
    /\ \A i, j \in 1..Len(rs) :
          i < j => /\ Lt(getTime(EmptyHeap, rs[i].start), getTime(EmptyHeap, rs[j].start))
                   /\ rs[i].end # None
                   /\ Lt(rs[i].end[1], getTime(EmptyHeap, rs[j].start))

\* C11: after construction from a list of ranges and after every union and
\* intersection the range set is canonical: strictly sorted by start,
\* pairwise disjoint, never touching, only the last range without an end.
C11_RangeSetStaysCanonical == Canonical(dateRangeSet)

\* A union of two sets of two ranges each, a range of the one ending where a
\* range of the other starts, has returned.
C11_UnionOfTouchingSets ==
    /\ setCall.op = "union"
    /\ Len(setCall.this) = 2
    /\ Len(setCall.other) = 2
    /\ \E i, j \in 1..2 : setCall.this[i].end = Some(getTime(EmptyHeap, setCall.other[j].start))
    /\ Len(dateRangeSet) = 2

\* t lies inside some range of rs, by a scan of rs.
Covers(rs, t) == \E i \in 1..Len(rs) : inDateRangeImpl(EmptyHeap, Fresh(t), rs[i])

\* C12: t lies inside some range of union(A, B) exactly when it lies inside
\* some range of A or some range of B.
C12_UnionCoversEither ==
    setCall.op = "union"
        => \A t \in Points :
              Covers(dateRangeSet, t) <=> (Covers(setCall.this, t) \/ Covers(setCall.other, t))

\* A union of an empty set with a set that ends in an open-ended range has
\* returned.
C12_UnionOfEmptyAndOpen ==
    /\ setCall.op = "union"
    /\ Len(setCall.this) = 0
    /\ Len(setCall.other) = 2
    /\ lastDate(setCall.other) = None

\* C13: t lies inside some range of intersection(A, B) exactly when it lies
\* inside some range of A and some range of B, and no range of the result
\* is empty or of negative length.
C13_IntersectionCoversBoth ==
    setCall.op = "intersection"
        => /\ \A t \in Points :
                 Covers(dateRangeSet, t) <=> (Covers(setCall.this, t) /\ Covers(setCall.other, t))
           /\ \A i \in 1..Len(dateRangeSet) :
                 dateRangeSet[i].end # None
                     => Lt(getTime(EmptyHeap, dateRangeSet[i].start), dateRangeSet[i].end[1])

\* An intersection of a set ending in an open-ended range with a set of two
\* closed ranges has returned two ranges.
C13_IntersectionOfOpenAndClosed ==
    /\ setCall.op = "intersection"
    /\ lastDate(setCall.this) = None
    /\ Len(setCall.this) > 0
    /\ lastDate(setCall.other) # None
    /\ Len(dateRangeSet) = 2

\* The indices of the ranges of rs that hold t, by a scan of rs.
Holding(rs, t) == {i \in 1..Len(rs) : inDateRangeImpl(EmptyHeap, Fresh(t), rs[i])}

\* C14: the binary search returns a range of the set that holds t when
\* there is one, and undefined otherwise, as a linear scan does.
C14_BinarySearchIsLinearScan ==
    setCall.op = "inRange"
        => IF Holding(dateRangeSet, setCall.date) = {}
           THEN setCall.res = None
           ELSE /\ setCall.res # None
                /\ \E i \in Holding(dateRangeSet, setCall.date) :
                      setCall.res[1] = dateRangeSet[i]

\* The search has found the last of three ranges, open-ended, at its start.
C14_FoundOpenLastRangeAtStart ==
    /\ setCall.op = "inRange"
    /\ Len(dateRangeSet) = 3
    /\ lastDate(dateRangeSet) = None
    /\ setCall.date = getTime(EmptyHeap, dateRangeSet[3].start)
    /\ setCall.res = Some(dateRangeSet[3])


\* (month, day) a is not later in the year than (month, day) b.
MonthDayLe(a, b) == a.month < b.month \/ (a.month = b.month /\ a.day <= b.day)

\* The calendar date of t lies in the band from start to end, the end day
\* included; the band goes over the new year when start is later than end.
InDateBand(start, end, t) ==
    LET md == [month |-> getMonth(t), day |-> getDate(t)]
    IN  IF MonthDayLe(start, end)
        THEN MonthDayLe(start, md) /\ MonthDayLe(md, end)
        ELSE MonthDayLe(start, md) \/ MonthDayLe(md, end)

\* range is an occurrence of the band: from 00:00 of the start day to the
\* first 00:00 after the end day that follows it.
DateBandOccurrence(start, end, range) ==
    /\ range.start.ms = 0
    /\ getMonth(range.start) = start.month
    /\ getDate(range.start) = start.day
    /\ range.end # None
    /\ range.end[1].ms = 0
    /\ getMonth(AddDays(range.end[1], -1)) = end.month
    /\ getDate(AddDays(range.end[1], -1)) = end.day
    /\ Lt(range.start, range.end[1])
    /\ range.end[1].day - range.start.day <= 366

\* C19: for DateBetweenCond(start, end), inRange(t) is true exactly when the
\* calendar date of t lies in the band from start to end, and
\* lastActiveRange(t) and the range of nextRanges(t) are occurrences of the
\* band starting in consecutive years.
C19_DateBandAndYearlyOccurrences ==
    cond.type = "DateBetween"
        => /\ last.op = "inRange"
                => last.res = InDateBand(cond.startMonthDay, cond.endMonthDay, last.date)
           /\ last.op = "lastActiveRange"
                => /\ last.res # None
                   /\ DateBandOccurrence(cond.startMonthDay, cond.endMonthDay, last.res[1])
           /\ last.op = "nextRanges"
                => /\ Len(last.res) = 1
                   /\ DateBandOccurrence(cond.startMonthDay, cond.endMonthDay, last.res[1])
                   /\ getFullYear(last.res[1].start)
                          = getFullYear(SeenOptRange(lastActiveRange(cond, last.pre,
                                            Fresh(last.date))).res[1].start) + 1


\* Day d of a month falls in the band from day s to day e, e included; the
\* band goes over the end of the month when s is greater than e.
InDayBand(s, e, d) == IF s <= e THEN s <= d /\ d <= e ELSE d >= s \/ d <= e

\* C20: for DayBetweenCond(s, e), inRange(t) is true exactly when the day of
\* the month of t falls in the band from s to e, e included.
C20_InRangeIsDayOfMonthInBand ==
    (cond.type = "DayBetween" /\ last.op = "inRange")
        => last.res = InDayBand(cond.range.start, cond.range.end, getDate(last.date))


\* The start of the bucket of the smallest non-zero unit of span c after the
\* bucket of t.
NextBucket(c, t) ==
    IF c.seconds > 0 THEN AddMs(FloorTo(t, MsPerSecond), MsPerSecond)
    ELSE IF c.minutes > 0 THEN AddMs(FloorTo(t, MsPerMinute), MsPerMinute)
    ELSE IF c.hours > 0 THEN AddMs(FloorTo(t, MsPerHour), MsPerHour)
    ELSE IF c.days > 0 THEN Time(t.day + 1, 0)
    ELSE NewDate(getFullYear(t), getMonth(t) + 1, 1)

\* The instant one span c after instant start.
SpanAfter(c, start) ==
    AddMs(Time(NewDate(getFullYear(start), getMonth(start) + c.months, getDate(start)).day
                   + c.days, start.ms),
          c.hours * MsPerHour + c.minutes * MsPerMinute + c.seconds * MsPerSecond)

\* C21: for TimeSpanCond, nextRanges(t) is a single range that starts at the
\* start of the next bucket of the smallest non-zero unit (next second,
\* minute, hour, day, or the first day of the next month) and lasts the
\* declared duration.
C21_NextSpanStartsAtNextBucket ==
    (cond.type = "TimeSpan" /\ last.op = "nextRanges")
        => /\ Len(last.res) = 1
           /\ last.res[1].start = NextBucket(cond, last.date)
           /\ last.res[1].end = Some(SpanAfter(cond, last.res[1].start))


RECURSIVE Occurrence(_, _, _, _)

\* The k-th occurrence of child counted from the first one that starts at
\* or after anchor, as the caller sees it; None when there is none.  The
\* occurrence after one that starts at s is the first range of nextRanges(s).
Occurrence(child, h, anchor, k) ==
    IF k = 1
    THEN LET at == SeenOptRange(lastActiveRange(child, h, Fresh(anchor))).res
         IN  IF at # None /\ at[1].start = anchor
             THEN at
             ELSE LET after == SeenRanges(nextRanges(child, h, Fresh(anchor))).res
                  IN  IF Len(after) = 0 THEN None ELSE Some(after[1])
    ELSE LET before == Occurrence(child, h, anchor, k - 1)
         IN  IF before = None
             THEN None
             ELSE LET after == SeenRanges(nextRanges(child, h, Fresh(before[1].start))).res
                  IN  IF Len(after) = 0 THEN None ELSE Some(after[1])

\* C22: the first candidate range of NthCond(anchor, n, child), the one its
\* constructor keeps, is occurrence number n of child counted from the first
\* occurrence that starts at or after anchor.
C22_FirstCandidateIsNthFromAnchor ==
    (cond.type = "Nth" /\ cond.cond.type \in {"WeekDay", "TimeBetween"})
        => firstDate(ViewRanges(built, cond.validFrom))
               = LET nth == Occurrence(cond.cond, built, cond.startDate, cond.n)
                 IN  IF nth = None THEN None ELSE Some(nth[1].start)


\* The child of NthCond c, a TimeDeltaCond, has fewer than c.n occurrences
\* after the anchor: it comes true once, at its validFrom, and stays true.
DeltaRunsOut(c, h) == c.n > 1 \/ Le(h[c.cond.id][1], c.startDate)

\* C23: when the child has no n-th occurrence after the anchor, nextRanges(t)
\* of NthCond is the empty set and lastActiveRange(t) is undefined.
C23_ExhaustedNthAnswersEmpty ==
    (cond.type = "Nth" /\ cond.cond.type = "TimeDelta" /\ DeltaRunsOut(cond, built))
        => /\ last.op = "nextRanges" => last.res = <<>>
           /\ last.op = "lastActiveRange" => last.res = None

\* Both queries have answered for a child that ran out at the second
\* occurrence, at an instant the child is true at.
C23_AskedAfterChildRanOut ==
    /\ cond.type = "Nth"
    /\ cond.cond.type = "TimeDelta"
    /\ cond.n = 2
    /\ last.op \in {"nextRanges", "lastActiveRange"}
    /\ Le(built[cond.cond.id][1], last.date)


\* The starts of the occurrences of A in heap h around the instants queried:
\* of the last active and the next ranges at each instant and a week earlier.
StartsOf(A, h) ==
    UNION {LET at == SeenOptRange(lastActiveRange(A, h, Fresh(u))).res
               after == SeenRanges(nextRanges(A, h, Fresh(u))).res
           IN  (IF at = None THEN {} ELSE {at[1].start})
               \cup {after[i].start : i \in 1..Len(after)} :
           u \in Instants \cup {AddDays(v, -7) : v \in Instants}}

\* The earliest range of B in heap h that starts at or after s (inclusive)
\* or after s; None when there is none.
FirstFrom(B, h, s, inclusive) ==
    LET after == SeenRanges(nextRanges(B, h, Fresh(IF inclusive THEN AddMs(s, -1) ELSE s))).res
    IN  IF Len(after) = 0 THEN None ELSE Some(after[1])

\* range is the first occurrence of c.relativeCond from the start of some
\* occurrence of c.refCond.
FirstOfSomeStart(c, h, range) ==
    \E s \in StartsOf(c.refCond, h) : FirstFrom(c.relativeCond, h, s, c.inclusive) = Some(range)

\* C24: every range FirstAfterStartCond(A, B, inclusive) returns from
\* lastActiveRange or nextRanges is the earliest range of B that starts at or
\* after (inclusive) or strictly after (exclusive) the start of some
\* occurrence of A.
C24_ReturnsFirstOfBFromAStart ==
    cond.type = "FirstAfterStart"
        => /\ (last.op = "lastActiveRange" /\ last.res # None)
                => FirstOfSomeStart(cond, heap, last.res[1])
           /\ last.op = "nextRanges"
                => \A i \in 1..Len(last.res) : FirstOfSomeStart(cond, heap, last.res[i])


\* The arguments lie outside the domains of the constructor of the class.
OutsideDomain(desc) ==
    CASE desc.type = "MonthBetween" ->
            {desc.range.start, desc.range.end} \ (0..11) # {}
      [] desc.type = "DateBetween" ->
            \/ {desc.startMonthDay.month, desc.endMonthDay.month} \ (0..11) # {}
            \/ {desc.startMonthDay.day, desc.endMonthDay.day} \ (1..31) # {}
      [] desc.type = "DayBetween" -> {desc.range.start, desc.range.end} \ (1..31) # {}
      [] desc.type = "WeekDay" -> desc.weekDayNumber \notin 0..6
      [] desc.type = "TimeSpan" ->
            LET parts == {desc.months, desc.days, desc.hours, desc.minutes, desc.seconds}
            IN  (\E x \in parts : x < 0) \/ parts = {0}
      [] desc.type \in {"Or", "And"} -> desc.conditions = <<>>

\* C25: a constructor throws, and there is no condition, exactly when an
\* argument is outside its domain (month 0..11, day 1..31, weekday 0..6, a
\* span with no negative part and some part not zero, a list of children
\* that is not empty); otherwise the condition of that class is built.
C25_ConstructorThrowsIffOutsideDomain ==
    last.op = "new"
        => /\ last.threw = OutsideDomain(last.desc)
           /\ last.threw => cond = None
           /\ ~last.threw => (cond # None /\ cond.type = last.desc.type)

\* A constructor has accepted an argument on the edge of its domain:
\* WeekDay(6).
C25_BuiltSaturday ==
    /\ last.op = "new"
    /\ last.desc = WeekDay(6)
    /\ ~last.threw
    /\ cond = WeekDay(6)


\* The most rounds one enumeration loop of AndCond may take.
MaxRounds == 64

RECURSIVE FrontierPasses(_, _, _, _, _)

\* The enumeration loop of one child, from the child's answer condRanges
\* with the frontier at its last end: every round moves the frontier
\* strictly forward, and within rounds rounds the child has no further end
\* or the frontier is past stop.  With no stop the loop is not entered.
FrontierPasses(child, h, condRanges, stop, rounds) ==
    LET frontier == lastDate(condRanges)
    IN  IF frontier = None \/ stop = None \/ Lt(stop[1], frontier[1])
        THEN TRUE
        ELSE /\ rounds > 0
             /\ LET next == nextRanges(child, h, Fresh(frontier[1]))
                IN  /\ lastDate(next.res) = None \/ Lt(frontier[1], lastDate(next.res)[1])
                    /\ FrontierPasses(child, next.h, next.res, stop, rounds - 1)

\* The enumeration loop of every child of AndCond c inside the envelope from
\* earliestStart, as the third loop of lastActiveRange and nextRanges runs it.
EnumerationsEnd(c, h, earliestStart, stop) ==
    \A i \in 1..Len(c.conditions) :
        LET first == nextRangesAt(c.conditions[i],
                         AndRefStart(lastActiveRange(c.conditions[i], h, CopyDate(h, earliestStart)),
                                     CopyDate(h, earliestStart)))
        IN  FrontierPasses(c.conditions[i], first.h, first.res, stop, MaxRounds)

\* The enumerations of lastActiveRange(date): they stop at the end of the
\* envelope, or at date when the envelope has no end.
LastEnumerationsEnd(c, h, date) ==
    LET env == AndEnvelopeLoop(c, h, Fresh(date), 1, None, None)
    IN  env.earliestStart # None
            => LET ref == AndRefineLoop(c, env.h, env.earliestStart[1], 1, None)
               IN  EnumerationsEnd(c, ref.h,
                       IF ref.earliestStart2 # None
                       THEN ref.earliestStart2[1]
                       ELSE env.earliestStart[1],
                       IF env.latestEnd # None THEN env.latestEnd ELSE Some(date))

\* The enumerations of nextRanges(searchAfter): they stop at the end of the
\* envelope, and are not entered when the envelope has no end.
NextEnumerationsEnd(c, h, searchAfter) ==
    LET env == AndNextEnvelopeLoop(c, h, Fresh(searchAfter), 1, None, None)
    IN  env.earliestStart # None
            => EnumerationsEnd(c, env.h, env.earliestStart[1], env.latestEnd)

HasOpenEnd(rs) == \E i \in 1..Len(rs) : rs[i].end = None

\* C27: intersection(A, B) has a range without an end only if both A and B
\* have one, and union(A, B) has one whenever A or B has one.
C27_OpenEndOfIntersectionAndUnion ==
    /\ setCall.op = "intersection"
            => (HasOpenEnd(dateRangeSet) => (HasOpenEnd(setCall.this) /\ HasOpenEnd(setCall.other)))
    /\ setCall.op = "union"
            => ((HasOpenEnd(setCall.this) \/ HasOpenEnd(setCall.other)) => HasOpenEnd(dateRangeSet))

\* An intersection of two sets that both end in an open-ended range has
\* returned a set with an open-ended range.
C27_IntersectionOfTwoOpenSets ==
    /\ setCall.op = "intersection"
    /\ HasOpenEnd(setCall.this)
    /\ HasOpenEnd(setCall.other)
    /\ setCall.this # setCall.other
    /\ HasOpenEnd(dateRangeSet)


\* The minute of the day of an authored time.
MinuteOfDay(dayTime) == dayTime.hour * 60 + dayTime.minute

\* range is a range of the condition authored as desc: it starts at the
\* authored start, and it ends at the authored end (exclusive) or one minute
\* after it (inclusive), on the same day when the start is before the end
\* and on the following day otherwise.
AuthoredRange(desc, range) ==
    /\ range.start.ms = MinuteOfDay(desc.start) * MsPerMinute
    /\ range.end
          = Some(AddMs(Time(range.start.day
                                + (IF MinuteOfDay(desc.start) < MinuteOfDay(desc.end) THEN 0 ELSE 1),
                            0),
                       (MinuteOfDay(desc.end) + (IF desc.inclusive THEN 1 ELSE 0)) * MsPerMinute))

\* The authored conditions the constructor turns into c.
AuthoredAs(c) == {desc \in TimeBetweenConds : Build(desc, <<0>>).c = c}

\* C28: every range of a TimeBetweenCond authored with start # end runs from
\* the authored start to the authored end when the end is exclusive and to
\* one minute after it when it is inclusive, the end on the same day when
\* start is before end and on the following day otherwise.
C28_RangesFollowAuthoredTimes ==
    cond.type = "TimeBetween"
        => \A desc \in AuthoredAs(cond) :
              /\ last.op = "lastActiveRange"
                    => (last.res # None /\ AuthoredRange(desc, last.res[1]))
              /\ last.op = "nextRanges"
                    => (Len(last.res) = 1 /\ AuthoredRange(desc, last.res[1]))

\* lastActiveRange has answered for the condition authored from 22:00 to an
\* exclusive 00:00, whose stored end the constructor wraps to 23:59.
C28_AskedWithExclusiveMidnight ==
    /\ cond = Build(TimeBetween(22, 0, 0, 0, FALSE), <<0>>).c
    /\ cond.range.end = [hour |-> 23, minute |-> 59]
    /\ last.op = "lastActiveRange"
    /\ last.res # None
    /\ last.res[1].end[1].ms = 0


\* C29: a DayTime the parser produces from a time literal has its hour in
\* 0..23 and its minute in 0..59; a literal that would yield another is
\* rejected with a parse error.
C29_ParsedDayTimeWithinBounds ==
    (last.op = "parseDayTime" /\ ~last.threw)
        => /\ last.value[1].hour \in 0..23
           /\ last.value[1].minute \in 0..59


\* The days of the three weeks from the anchor's day on that start at or
\* after anchor and fall on Monday..Friday.
WorkingDaysFrom(anchor) ==
    {d \in anchor.day..(anchor.day + 21) :
        Le(anchor, Time(d, 0)) /\ getDay(Time(d, 0)) \in 1..5}

\* The n-th working day from anchor on.
NthWorkingDay(anchor, n) ==
    CHOOSE d \in WorkingDaysFrom(anchor) :
        Cardinality({e \in WorkingDaysFrom(anchor) : e <= d}) = n

\* C30: NthCond(anchor, n, workday) selects the n-th working day after
\* anchor, each of Monday..Friday counting as one occurrence: its first
\* candidate is that one day.
C30_NthWorkdayIsNthWorkingDay ==
    (cond.type = "Nth" /\ cond.cond.type = "Or")
        => ViewRanges(built, cond.validFrom)
               = <<[start |-> Time(NthWorkingDay(cond.startDate, cond.n), 0),
                    end |-> Some(Time(NthWorkingDay(cond.startDate, cond.n) + 1, 0))]>>

====
